---- MODULE Spec2Model ----
(***************************************************************************)
(* SD-card storage acquisition of the ESP32 / MAX98357A music player.      *)
(*                                                                         *)
(* sdcard_helper.py keeps the mount state in module globals (_spi, _sd,    *)
(* _vfs, _mounted, _last_operation_time); play.py keeps SD_AVAILABLE and   *)
(* offers refresh_sd() and the catalog listing.  The program is single     *)
(* threaded: every handler runs to its return (or to the exception that    *)
(* leaves it) before the next one starts, so each handler is one action.   *)
(*                                                                         *)
(* Time is counted in ticks of 0.1 s.  The drivers (busio, sdcardio,       *)
(* storage, os, gc) are the environment: busHeld says whether the SPI pins *)
(* are claimed by a busio.SPI object that was never deinitialised,         *)
(* fsMounted whether a filesystem is mounted at /sd.  Which driver call    *)
(* raises is an input of the action.                                       *)
(*                                                                         *)
(* calls is the trace of driver calls of the last handler, each entry with *)
(* its outcome and the value _mounted had when the call was made.          *)
(*                                                                         *)
(* Three specifications share the handlers: Spec is the storage state      *)
(* machine from power-up; SpecPlay is the player after play.py's import,   *)
(* with play_file; SpecCatalog is the directory index as a function of the *)
(* names the two volumes hold.                                             *)
(***************************************************************************)
EXTENDS Integers, Sequences, FiniteSets

VARIABLES
    _spi, _sd, _vfs,            \* sdcard_helper.py:26-28
    _mounted,                   \* sdcard_helper.py:29
    _last_operation_time,       \* sdcard_helper.py:30
    throttled,                  \* history: _check_rate_limit has been called
    SD_AVAILABLE,               \* play.py:21
    SDCARD_HELPER_AVAILABLE,    \* play.py:22
    playLoaded,                 \* play.py has been imported (its top level ran)
    busHeld, fsMounted,         \* hardware / driver state
    playing,                    \* audio.playing of the I2S output (play.py:53)
    stream,                     \* the file object f of play_file (play.py:200)
    rootDir, sdDir,             \* what os.listdir returns for "/" and for "/sd"
    directory, file_filter,     \* arguments of the last get_audio_files call
    audio_files,                \* the list the last catalog call returned
    frame,                      \* play_all's locals: files, the loop index, repeat
    diag,                       \* the diagnostic scripts: the counts of the
                                \* listings, the used space, the diagnoses
    turns,                      \* play_file calls play_all has made
    hist,                       \* history of the play_all call: entries attempted,
                                \* failures reported, passes made, cancel seen
    now,                        \* time.monotonic(), in ticks
    lastOp, ret, calls,         \* the last handler, its result, its driver calls
                                \* (with directory, file_filter, audio_files)
    ioFailure                   \* history: "failed" after a listing of the mounted
                                \* volume raised, "preceded" in the handler after it

vars == <<_spi, _sd, _vfs, _mounted, _last_operation_time, throttled,
          SD_AVAILABLE, SDCARD_HELPER_AVAILABLE, playLoaded, busHeld, fsMounted,
          playing, stream, rootDir, sdDir, directory, file_filter, audio_files,
          frame, turns, hist, diag, now, lastOp, ret, calls, ioFailure>>

-----------------------------------------------------------------------------
(* Bounds of the model *)
MaxTime == 24       \* the clock stops the model at 2.4 s
MaxPolls == 2       \* a track ends within that many polls of audio.playing
MaxFiles == 3       \* entries on the two volumes together
MaxTracks == 2      \* tracks on the two volumes together when play_all runs
MaxCount == 2       \* files a listing of the diagnostic scripts returns

(* Program constants, in ticks of 0.1 s *)
MOUNT_SETTLE == 2       \* time.sleep(0.2)
UNMOUNT_SETTLE == 5     \* time.sleep(0.5)
REFRESH_PAUSE == 10     \* time.sleep(1)
MIN_SPACING == 5        \* 0.5 s between operations
POLL == 1               \* time.sleep(0.1) in the polling loop
PLAY_SETTLE == 3        \* time.sleep(0.3) after playback
TRACK_PAUSE == 5        \* time.sleep(0.5) between songs
STABILITY_PAUSE == 5    \* time.sleep(0.5) between loops of verify_sd_stability
WRITE_INTERVAL == 1     \* test_sd(slow=True, interval=0.1)
BootTime == 1           \* time.monotonic() is positive once code runs

None == "None"

-----------------------------------------------------------------------------
(* The state as one record, so that handlers are functions of it *)
Cur ==
    [ _spi |-> _spi, _sd |-> _sd, _vfs |-> _vfs, _mounted |-> _mounted,
      _last_operation_time |-> _last_operation_time, throttled |-> throttled,
      SD_AVAILABLE |-> SD_AVAILABLE,
      SDCARD_HELPER_AVAILABLE |-> SDCARD_HELPER_AVAILABLE,
      busHeld |-> busHeld, fsMounted |-> fsMounted,
      playing |-> playing, stream |-> stream,
      rootDir |-> rootDir, sdDir |-> sdDir,
      directory |-> None, file_filter |-> None, audio_files |-> <<>>,
      now |-> now,
      ret |-> "None", calls |-> <<>> ]

(* One driver call appended to the trace *)
Log(s, c, arg, ok) ==
    [s EXCEPT !.calls = Append(@, [c |-> c, arg |-> arg, ok |-> ok,
                                   m |-> s._mounted])]

Return(s, r) == [s EXCEPT !.ret = r]

(* time.sleep(t); a KeyboardInterrupt (intr) ends it at once and is raised *)
Sleep(s, t, intr) ==
    IF intr THEN Log(s, "time.sleep", t, FALSE)
    ELSE [Log(s, "time.sleep", t, TRUE) EXCEPT !.now = s.now + t]

-----------------------------------------------------------------------------
(* sdcard_helper._check_rate_limit.  The call itself is entered in the     *)
(* trace, so that the trace shows which storage calls it precedes.         *)
_check_rate_limit_nowait(s) ==
    [Log(s, "_check_rate_limit", "", TRUE) EXCEPT
        !._last_operation_time = s.now, !.throttled = TRUE]

_check_rate_limit_full(s) ==
    LET s0 == Log(s, "_check_rate_limit", "", TRUE)
        waits == s._last_operation_time > 0 /\ s.now < s._last_operation_time + MIN_SPACING
        s1 == IF waits THEN Sleep(s0, MIN_SPACING, FALSE) ELSE s0
    IN  [s1 EXCEPT !._last_operation_time = s1.now, !.throttled = TRUE]

_check_rate_limit(s) ==
    LET s0 == Log(s, "_check_rate_limit", "", TRUE)
        time_since_last == s.now - s._last_operation_time
        waits == s._last_operation_time > 0 /\ s.now < s._last_operation_time + MIN_SPACING
        s1 == IF waits THEN Sleep(s0, MIN_SPACING - time_since_last, FALSE) ELSE s0
    IN  [s1 EXCEPT !._last_operation_time = s1.now, !.throttled = TRUE]

-----------------------------------------------------------------------------
(* sdcard_helper.mount.  f.failAt names the driver call that raises,       *)
(* f.intr a KeyboardInterrupt during the settling sleep.  The SPI object,  *)
(* the card and the filesystem are locals: the module's _spi, _sd, _vfs    *)
(* are not assigned.  busio.SPI raises when the pins are still claimed.    *)
MountFaults == {"none", "busio.SPI", "sdcardio.SDCard", "storage.VfsFat", "storage.mount"}
MountOk == [failAt |-> "none", intr |-> FALSE]
(* The inputs that make a difference in s: none once mounted (nothing is   *)
(* called); the sleep is reached only if no call raised.                   *)
MountInputs(s) ==
    IF s._mounted THEN {MountOk}
    ELSE {f \in [failAt : MountFaults, intr : BOOLEAN] : f.intr => f.failAt = "none"}

(* line 49: if _mounted: return True *)
AlreadyMounted_never(s) == FALSE
AlreadyMounted_stale(s) == s._mounted /\ ~s.fsMounted
AlreadyMounted(s) == s._mounted

(* lines 62-64: no listing, no sync, only the settling sleep *)
Settle_and_prime(s, intr) ==
    LET s1 == Sleep(s, MOUNT_SETTLE, intr)
    IN  IF intr THEN s1 ELSE Log(s1, "os.listdir", "/sd", TRUE)
Settle(s, intr) == Sleep(s, MOUNT_SETTLE, intr)

(* line 66: _mounted = True *)
MarkMounted_stamps(s) == [s EXCEPT !._mounted = TRUE, !._last_operation_time = s.now]
MarkMounted(s) == [s EXCEPT !._mounted = TRUE]

mount(s, f) ==
    IF AlreadyMounted(s) THEN Return(s, "True")
    ELSE
    LET spiOk == f.failAt # "busio.SPI" /\ ~s.busHeld
        s1 == [Log(s, "busio.SPI", "pins", spiOk) EXCEPT !.busHeld = s.busHeld \/ spiOk]
        sdOk == f.failAt # "sdcardio.SDCard"
        s2 == Log(s1, "sdcardio.SDCard", "spi", sdOk)
        vfsOk == f.failAt # "storage.VfsFat"
        s3 == Log(s2, "storage.VfsFat", "sd", vfsOk)
        mntOk == f.failAt # "storage.mount" /\ ~s.fsMounted
        s4 == [Log(s3, "storage.mount", "/sd", mntOk) EXCEPT !.fsMounted = s.fsMounted \/ mntOk]
        s5 == Settle(s4, f.intr)
    IN  IF ~spiOk THEN Return(s1, "False")
        ELSE IF ~sdOk THEN Return(s2, "False")
        ELSE IF ~vfsOk THEN Return(s3, "False")
        ELSE IF ~mntOk THEN Return(s4, "False")
        ELSE IF f.intr THEN Return(s5, "KeyboardInterrupt")
        ELSE Return(MarkMounted(s5), "True")

-----------------------------------------------------------------------------
(* gc.collect().  The SPI object made by mount() is garbage once nothing   *)
(* refers to it: the module never held it, so that is when no filesystem   *)
(* built on it is mounted.  Whether collecting it gives the pins back      *)
(* depends on the build (a finaliser on busio.SPI, stale references on the *)
(* stack): frees is the outcome.                                           *)
Collect(s, frees) ==
    [Log(s, "gc.collect", "", TRUE) EXCEPT
        !.busHeld = IF s._spi = None /\ ~s.fsMounted /\ frees THEN FALSE ELSE @]

(* sdcard_helper.unmount.  f.umountRaises / f.deinitRaises: the call       *)
(* raises (both are swallowed by a bare except); f.end = "raises": an      *)
(* Exception escapes the cleanup at gc.collect() and the outer handler     *)
(* runs; f.end = "intr": a KeyboardInterrupt during the settling sleep,    *)
(* which no handler catches.                                               *)
UnmountOk == [umountRaises |-> FALSE, deinitRaises |-> FALSE, gcFrees |-> TRUE,
              end |-> "returns"]
(* The inputs that make a difference in s: none when not mounted; deinit   *)
(* can raise only if it is called.                                         *)
UnmountInputs(s) ==
    IF ~s._mounted THEN {UnmountOk}
    ELSE [umountRaises : BOOLEAN,
          deinitRaises : IF s._spi = None THEN {FALSE} ELSE BOOLEAN,
          gcFrees : BOOLEAN, end : {"returns", "raises", "intr"}]

(* lines 99-101 and 117-119 *)
ClearRefs(s) == [s EXCEPT !._spi = None, !._sd = None, !._vfs = None]

(* lines 109-110: _mounted = False; _last_operation_time = 0 *)
MarkUnmounted_keepsFlag(s) == [s EXCEPT !._last_operation_time = 0]
MarkUnmounted(s) == [s EXCEPT !._mounted = FALSE, !._last_operation_time = 0]

unmount(s, f) ==
    IF ~s._mounted THEN Return(s, "True")
    ELSE
    LET umOk == s.fsMounted /\ ~f.umountRaises
        s1 == [Log(s, "storage.umount", "/sd", umOk) EXCEPT !.fsMounted = @ /\ ~umOk]
        s2 == IF s1._spi # None
              THEN [Log(s1, "spi.deinit", "", ~f.deinitRaises)
                        EXCEPT !.busHeld = @ /\ f.deinitRaises]
              ELSE s1
        s3 == ClearRefs(s2)
        s4 == Collect(s3, f.gcFrees)
        s5 == Sleep(s4, UNMOUNT_SETTLE, f.end = "intr")
        failed == [Log(s3, "gc.collect", "", FALSE) EXCEPT !._mounted = FALSE]
    IN  IF f.end = "raises" THEN Return(Collect(ClearRefs(failed), f.gcFrees), "False")
        ELSE IF f.end = "intr" THEN Return(s5, "KeyboardInterrupt")
        ELSE Return(MarkUnmounted(s5), "True")

(* sdcard_helper.is_mounted *)
is_mounted(s) == s._mounted

-----------------------------------------------------------------------------
(* sdcard_helper.list_files("/sd").  "names" stands for the listing the    *)
(* driver returned, "[]" for the empty list.                               *)
ListInputs == [raises : BOOLEAN]
ListOk == [raises |-> FALSE]

(* lines 225-227: the error is printed and an empty list returned *)
OnListError_unmounts(s) == Return([s EXCEPT !._mounted = FALSE], "[]")
OnListError_stale_names(s) == Return(s, "names")
OnListError(s) == Return(s, "[]")

list_files(s, f) ==
    IF ~s._mounted THEN Return(s, "[]")
    ELSE
    LET s1 == _check_rate_limit(s)
        ok == s1.fsMounted /\ ~f.raises
        s2 == Log(s1, "os.listdir", "/sd", ok)
    IN  IF ok THEN Return(s2, "names") ELSE OnListError(s2)

(* lines 127-129, 170-172, 216-218, 237-238: the guard of the operations   *)
(* that use the card.  verify_sd_stability has none.                       *)
NotMounted(s) == ~s._mounted

(* sdcard_helper.print_info.  f.raises: os.statvfs raises; nothing         *)
(* catches it.                                                             *)
print_info(s, f) ==
    IF NotMounted(s) THEN Return(s, "False")
    ELSE
    LET s1 == _check_rate_limit(s)
        ok == s1.fsMounted /\ ~f.raises
        s2 == Log(s1, "os.statvfs", "/sd", ok)
    IN  IF ok THEN Return(Log(s2, "os.listdir", "/sd", TRUE), "True")
        ELSE Return(s2, "OSError")

(* sdcard_helper.get_stats *)
get_stats(s, f) ==
    IF NotMounted(s) THEN Return(s, "None")
    ELSE
    LET s1 == _check_rate_limit(s)
        ok == s1.fsMounted /\ ~f.raises
        s2 == Log(s1, "os.statvfs", "/sd", ok)
    IN  IF ok THEN Return(s2, "stats") ELSE Return(s2, "None")

(* line 173: the file test_sd writes *)
TEST_TXT == <<"t", "e", "s", "t", ".", "t", "x", "t">>

(* open(path, "w") / open(path, "a"): the file is there afterwards *)
Written(s) ==
    [Log(s, "open", "/sd", TRUE) EXCEPT
        !.sdDir = IF \E i \in 1..Len(@) : @[i] = TEST_TXT THEN @
                  ELSE Append(@, TEST_TXT)]

(* lines 190-195: count writes, interval apart *)
RECURSIVE SlowWrites(_, _)
SlowWrites(s, count) ==
    IF count = 0 THEN s
    ELSE SlowWrites(Sleep(Written(s), WRITE_INTERVAL, FALSE), count - 1)

TestInputs == [slow : BOOLEAN, count : 1..2, raises : BOOLEAN]

(* sdcard_helper.test_sd.  f.raises: the first open raises OSError, as on  *)
(* a card mounted read-only.                                               *)
test_sd(s, f) ==
    IF NotMounted(s) THEN Return(s, "False")
    ELSE
    LET s1 == _check_rate_limit(s)
        ok == s1.fsMounted /\ ~f.raises
    IN  IF ~ok THEN Return(Log(s1, "open", "/sd", FALSE), "False")
        ELSE IF ~f.slow THEN Return(Log(Written(s1), "open", "/sd", TRUE), "True")
        ELSE Return(SlowWrites(s1, f.count), "True")

(* lines 270-274: os.stat of every file of the listing *)
RECURSIVE StatAll(_, _)
StatAll(s, n) == IF n = 0 THEN s ELSE StatAll(Log(s, "os.stat", "/sd", TRUE), n - 1)

StabilityInputs == [iterations : 1..2, failAt : 0..2]

(* sdcard_helper.verify_sd_stability, from loop i on.  f.failAt: the loop  *)
(* in which os.listdir raises.                                             *)
RECURSIVE StabilityLoops(_, _, _)
StabilityLoops(s, i, f) ==
    IF i > f.iterations THEN Return(s, "True")
    ELSE IF s.fsMounted /\ f.failAt # i
    THEN StabilityLoops(Sleep(StatAll(Log(s, "os.listdir", "/sd", TRUE),
                                      Len(s.sdDir)),
                              STABILITY_PAUSE, FALSE), i + 1, f)
    ELSE Return(Log(s, "os.listdir", "/sd", FALSE), "False")

verify_sd_stability(s, f) == StabilityLoops(s, 1, f)

-----------------------------------------------------------------------------
(* play.refresh_sd.  Its except Exception clause cannot run: mount() and   *)
(* unmount() catch every Exception themselves and time.sleep raises none.  *)
(* A KeyboardInterrupt leaves refresh_sd where it is raised.               *)
RefreshOk == [u |-> UnmountOk, m |-> MountOk, intr |-> FALSE]
(* The inputs that make a difference in s: none when refresh_sd refuses;   *)
(* nothing after the point where a KeyboardInterrupt leaves it.  mount()   *)
(* is always called in the unmounted state here.                           *)
RefreshInputs(s) ==
    IF ~s.SDCARD_HELPER_AVAILABLE \/ ~s.SD_AVAILABLE THEN {RefreshOk}
    ELSE {f \in [u : UnmountInputs(s),
                 m : MountInputs([s EXCEPT !._mounted = FALSE]),
                 intr : BOOLEAN] :
            /\ f.u.end = "intr" => ~f.intr
            /\ (f.u.end = "intr" \/ f.intr) => f.m = MountOk}

refresh_sd_ignores_result(s, f) ==
    IF ~s.SDCARD_HELPER_AVAILABLE THEN Return(s, "False")
    ELSE IF ~s.SD_AVAILABLE THEN Return(s, "False")
    ELSE
    LET u == unmount(s, f.u)
        p == Sleep(u, REFRESH_PAUSE, f.intr)
        m == mount(p, f.m)
    IN  IF u.ret = "KeyboardInterrupt" THEN u
        ELSE IF f.intr THEN Return(p, "KeyboardInterrupt")
        ELSE IF m.ret = "KeyboardInterrupt" THEN m
        ELSE Return([m EXCEPT !.SD_AVAILABLE = TRUE], "True")

refresh_sd_skips_unmount(s, f) ==
    IF ~s.SDCARD_HELPER_AVAILABLE THEN Return(s, "False")
    ELSE IF ~s.SD_AVAILABLE THEN Return(s, "False")
    ELSE
    LET p == Sleep(s, REFRESH_PAUSE, f.intr)
        m == mount(p, f.m)
    IN  IF f.intr THEN Return(p, "KeyboardInterrupt")
        ELSE IF m.ret = "KeyboardInterrupt" THEN m
        ELSE IF m.ret = "True" THEN Return([m EXCEPT !.SD_AVAILABLE = TRUE], "True")
        ELSE Return([m EXCEPT !.SD_AVAILABLE = FALSE], "False")

refresh_sd(s, f) ==
    IF ~s.SDCARD_HELPER_AVAILABLE THEN Return(s, "False")
    ELSE IF ~s.SD_AVAILABLE THEN Return(s, "False")
    ELSE
    LET u == unmount(s, f.u)
        p == Sleep(u, REFRESH_PAUSE, f.intr)
        m == mount(p, f.m)
    IN  IF u.ret = "KeyboardInterrupt" THEN u
        ELSE IF f.intr THEN Return(p, "KeyboardInterrupt")
        ELSE IF m.ret = "KeyboardInterrupt" THEN m
        ELSE IF m.ret = "True" THEN Return([m EXCEPT !.SD_AVAILABLE = TRUE], "True")
        ELSE Return([m EXCEPT !.SD_AVAILABLE = FALSE], "False")

-----------------------------------------------------------------------------
(* File names and paths are strings: sequences of characters.  The         *)
(* operators below do what the str and list methods used by play.py do.    *)
Uppercase == <<"A", "B", "C", "D", "E", "F", "G", "H", "I", "J", "K", "L", "M",
               "N", "O", "P", "Q", "R", "S", "T", "U", "V", "W", "X", "Y", "Z">>
Lowercase == <<"a", "b", "c", "d", "e", "f", "g", "h", "i", "j", "k", "l", "m",
               "n", "o", "p", "q", "r", "s", "t", "u", "v", "w", "x", "y", "z">>
(* the characters of file names, by ascending code point *)
CodePoints ==
    <<".", "/", "0", "1", "2", "3", "4", "5", "6", "7", "8", "9">>
        \o Uppercase \o <<"_">> \o Lowercase
IndexIn(seq, x) == CHOOSE i \in 1..Len(seq) : seq[i] = x

(* str.lower, one character *)
lower_char(ch) ==
    IF \E i \in 1..Len(Uppercase) : Uppercase[i] = ch
    THEN Lowercase[IndexIn(Uppercase, ch)] ELSE ch
lower(str) == [i \in 1..Len(str) |-> lower_char(str[i])]
startswith(str, prefix) ==
    Len(str) >= Len(prefix) /\ SubSeq(str, 1, Len(prefix)) = prefix
endswith(str, suffix) ==
    Len(str) >= Len(suffix)
    /\ SubSeq(str, Len(str) - Len(suffix) + 1, Len(str)) = suffix
(* sub in str *)
contains(str, sub) ==
    \E i \in 1..(Len(str) - Len(sub) + 1) : SubSeq(str, i, i + Len(sub) - 1) = sub

(* a < b for strings: by code point, a proper prefix first *)
RECURSIVE str_lt(_, _)
str_lt(a, b) ==
    IF b = <<>> THEN FALSE
    ELSE IF a = <<>> THEN TRUE
    ELSE IF a[1] = b[1] THEN str_lt(Tail(a), Tail(b))
    ELSE IndexIn(CodePoints, a[1]) < IndexIn(CodePoints, b[1])

(* list.sort() *)
RECURSIVE Insert(_, _)
Insert(x, l) ==
    IF l = <<>> THEN <<x>>
    ELSE IF str_lt(l[1], x) THEN <<l[1]>> \o Insert(x, Tail(l))
    ELSE <<x>> \o l
RECURSIVE Sorted(_)
Sorted(l) == IF l = <<>> THEN <<>> ELSE Insert(l[1], Sorted(Tail(l)))
sort_leaves_order(l) == l
sort(l) == Sorted(l)

WAV == <<".", "w", "a", "v">>
MP3 == <<".", "m", "p", "3">>
SD_ENTRY == <<"s", "d">>
KHZ16 == <<"1", "6", "k", "h", "z">>
KHZ22 == <<"2", "2", "k", "h", "z">>
KHZ8 == <<"8", "k", "h", "z">>

(* The names the volumes of the model hold: b8khz.wav, A.MP3, .c.mp3, sd,  *)
(* x16KHz.mp3, 22khz.txt                                                   *)
FileNames ==
    { <<"b", "8", "k", "h", "z", ".", "w", "a", "v">>,
      <<"A", ".", "M", "P", "3">>,
      <<".", "c", ".", "m", "p", "3">>,
      SD_ENTRY,
      <<"x", "1", "6", "K", "H", "z", ".", "m", "p", "3">>,
      <<"2", "2", "k", "h", "z", ".", "t", "x", "t">> }

(* os.listdir returns each name once, in the order of the directory *)
Listings(n) ==
    {l \in UNION {[1..k -> FileNames] : k \in 0..n} :
        \A i, j \in 1..Len(l) : i # j => l[i] # l[j]}

(* file_filter: None, 'mp3', 'wav', 'low', or a callable.  The callable of *)
(* the model rejects names that start with A and raises on names that      *)
(* start with b.                                                           *)
Filters == {None, "mp3", "wav", "low", "callable"}
Predicate(filename) ==
    IF filename[1] = "b" THEN "raises"
    ELSE IF filename[1] = "A" THEN "False" ELSE "True"

(* play.py:131-154, the body of the loop: "keep" appends the path, "skip"  *)
(* is continue, "raises" leaves the loop for the except clause             *)
MatchesLow_16_22_only(name_lower) ==
    contains(name_lower, KHZ16) \/ contains(name_lower, KHZ22)
MatchesLow(name_lower) ==
    contains(name_lower, KHZ16) \/ contains(name_lower, KHZ22)
        \/ contains(name_lower, KHZ8)

(* line 132: hidden files and the mount point *)
Excluded(filename) == startswith(filename, <<".">>) \/ filename = SD_ENTRY

(* line 138: filename.lower().endswith(('.wav', '.mp3')) *)
IsAudio_case_sensitive(filename) == endswith(filename, WAV) \/ endswith(filename, MP3)
IsAudio(filename) == endswith(lower(filename), WAV) \/ endswith(lower(filename), MP3)

Keep(filename, ff) ==
    IF Excluded(filename) THEN "skip"
    ELSE IF ~IsAudio(filename) THEN "skip"
    ELSE IF ff = None THEN "keep"
    ELSE IF ff = "mp3" THEN (IF endswith(lower(filename), MP3) THEN "keep" ELSE "skip")
    ELSE IF ff = "wav" THEN (IF endswith(lower(filename), WAV) THEN "keep" ELSE "skip")
    ELSE IF ff = "low" THEN (IF MatchesLow(lower(filename)) THEN "keep" ELSE "skip")
    ELSE IF Predicate(filename) = "raises" THEN "raises"
    ELSE IF Predicate(filename) = "True" THEN "keep" ELSE "skip"

(* line 135: f"{directory}/{filename}" if directory != "/" else f"/{filename}" *)
DirChars(dir) == IF dir = "/sd" THEN <<"/", "s", "d">> ELSE <<"/">>
filepath(dir, filename) ==
    IF dir # "/" THEN DirChars(dir) \o <<"/">> \o filename ELSE <<"/">> \o filename

(* lines 130-154: the loop over files *)
RECURSIVE Scan(_, _, _, _)
Scan(files, dir, ff, acc) ==
    IF files = <<>> THEN [audio_files |-> acc, raised |-> FALSE]
    ELSE LET k == Keep(files[1], ff)
         IN  IF k = "raises" THEN [audio_files |-> acc, raised |-> TRUE]
             ELSE Scan(Tail(files), dir, ff,
                       IF k = "keep" THEN Append(acc, filepath(dir, files[1])) ELSE acc)

(* play.get_audio_files("/sd", ...) as far as it touches storage *)
get_audio_files_sd(s, f) ==
    IF s.SDCARD_HELPER_AVAILABLE THEN list_files(s, f)
    ELSE Log(s, "os.listdir", "/sd", s.fsMounted /\ ~f.raises)

(* play.get_audio_files(directory, file_filter).  f.raises: the listing    *)
(* raises.  list_files returns [] where it fails; a raising os.listdir     *)
(* and a raising filter end in the except clause, which prints and falls   *)
(* through to return audio_files as it then is.                            *)
get_audio_files(s, dir, ff, f) ==
    LET s1 == IF dir = "/sd" THEN get_audio_files_sd(s, f)
              ELSE Log(s, "os.listdir", "/", ~f.raises)
        listed == IF dir = "/sd" /\ s.SDCARD_HELPER_AVAILABLE THEN s1.ret = "names"
                  ELSE s1.calls[Len(s1.calls)].ok
        files == IF ~listed THEN <<>> ELSE IF dir = "/sd" THEN s.sdDir ELSE s.rootDir
        scan == Scan(files, dir, ff, <<>>)
        found == IF scan.raised THEN scan.audio_files ELSE sort(scan.audio_files)
    IN  Return([s1 EXCEPT !.directory = dir, !.file_filter = ff,
                          !.audio_files = found], "audio_files")

(* play.get_all_audio_files: the internal root, then /sd if SD_AVAILABLE *)
FiltersIn(s) == IF s.rootDir = <<>> /\ s.sdDir = <<>> THEN {None} ELSE Filters
CatalogInputs(s) ==
    [internalRaises : BOOLEAN, sd : ListInputs, file_filter : FiltersIn(s)]

get_all_audio_files(s, f) ==
    LET s1 == get_audio_files(s, "/", f.file_filter, [raises |-> f.internalRaises])
        s2 == IF s1.SD_AVAILABLE THEN get_audio_files(s1, "/sd", f.file_filter, f.sd)
              ELSE s1
        sd_files == IF s1.SD_AVAILABLE THEN s2.audio_files ELSE <<>>
    IN  Return([s2 EXCEPT !.audio_files = s1.audio_files \o sd_files], "all_files")

(* The top level of play.py, lines 20-48 *)
play_import_assumes_card(s, f) ==
    LET s1 == [s EXCEPT !.SDCARD_HELPER_AVAILABLE = TRUE]
        m == mount(s1, f)
    IN  IF m.ret = "KeyboardInterrupt" THEN [m EXCEPT !.SDCARD_HELPER_AVAILABLE = FALSE]
        ELSE Return([m EXCEPT !.SD_AVAILABLE = TRUE], "None")

play_import(s, f) ==
    LET s1 == [s EXCEPT !.SDCARD_HELPER_AVAILABLE = TRUE]
        m == mount(s1, f)
    IN  IF is_mounted(s1) THEN Return([s1 EXCEPT !.SD_AVAILABLE = TRUE], "None")
        ELSE IF m.ret = "KeyboardInterrupt" THEN [m EXCEPT !.SDCARD_HELPER_AVAILABLE = FALSE]
        ELSE IF m.ret = "True" THEN Return([m EXCEPT !.SD_AVAILABLE = TRUE], "None")
        ELSE Return(m, "None")

-----------------------------------------------------------------------------
(* play.play_file(filepath).  f.root is the root the path is on ("/" or    *)
(* "/sd"); f.openRaises: open() raises (no such file); a file under /sd    *)
(* cannot be opened when no filesystem is mounted there; f.decoderRaises:  *)
(* MP3Decoder / WaveFile rejects the file; f.polls: how often the loop     *)
(* finds audio.playing true before the track ends; f.intr: where a         *)
(* KeyboardInterrupt arrives ("decode": while the decoder reads the        *)
(* header, "poll": in the sleep of the last poll, "settle": in the         *)
(* sleep after playback).                                                  *)
PlayOk == [root |-> "/", openRaises |-> FALSE, decoderRaises |-> FALSE, polls |-> 1,
           intr |-> "none", gcFrees |-> FALSE]
(* The inputs that make a difference in s: nothing after the call that     *)
(* raises; gc.collect() can only give back pins that are held by garbage.  *)
PlayInputs(s) ==
    {f \in [root : {"/", "/sd"}, openRaises : BOOLEAN, decoderRaises : BOOLEAN,
            polls : 0..MaxPolls, intr : {"none", "decode", "poll", "settle"},
            gcFrees : BOOLEAN] :
        /\ (f.root = "/sd" /\ ~s.fsMounted) => ~f.openRaises
        /\ (f.openRaises \/ (f.root = "/sd" /\ ~s.fsMounted)) =>
              ~f.decoderRaises /\ f.polls = 1 /\ f.intr = "none"
        /\ f.decoderRaises => f.polls = 1 /\ f.intr = "none"
        /\ f.intr = "decode" => f.polls = 1
        /\ f.intr \in {"poll", "settle"} => f.polls >= 1
        /\ f.gcFrees => s.busHeld /\ ~s.fsMounted /\ f.intr # "decode"}

(* audio.stop() *)
Stop(s) == [Log(s, "audio.stop", "", TRUE) EXCEPT !.playing = FALSE]

(* leaving the with block closes f, on every way out *)
WithExit_leaks(s) == s
WithExit(s) == [s EXCEPT !.stream = "closed"]

(* lines 213-216: while audio.playing: ... time.sleep(0.1) *)
RECURSIVE Poll(_, _)
Poll(s, k) == IF k = 0 THEN s ELSE Poll(Sleep(s, POLL, FALSE), k - 1)

(* lines 224-228: stop, collect, settle, return True *)
AfterPlayback_settles_twice(s, f) ==
    Return(Sleep(Sleep(Collect(Stop(s), f.gcFrees), PLAY_SETTLE, FALSE),
                 PLAY_SETTLE, FALSE), "True")
AfterPlayback_nosettle(s, f) ==
    LET s1 == Collect(Stop(s), f.gcFrees)
    IN  Return(s1, "True")
AfterPlayback(s, f) ==
    LET s1 == Collect(Stop(s), f.gcFrees)
        s2 == Sleep(s1, PLAY_SETTLE, f.intr = "settle")
    IN  IF f.intr = "settle" THEN Return(Stop(s2), "KeyboardInterrupt")
        ELSE Return(s2, "True")

(* lines 233-239: except Exception: print, stop, collect, return False *)
OnPlayError_marks_unavailable(s, f) ==
    Return([Collect(Stop(s), f.gcFrees) EXCEPT !.SD_AVAILABLE = FALSE], "False")
OnPlayError_reraises(s, f) == Return(Collect(Stop(s), f.gcFrees), "Exception")
OnPlayError(s, f) == Return(Collect(Stop(s), f.gcFrees), "False")

play_file(s, f) ==
    LET openOk == ~f.openRaises /\ (f.root = "/sd" => s.fsMounted)
        s1 == [Log(s, "open", f.root, openOk) EXCEPT
                  !.stream = IF openOk THEN "open" ELSE @]
        decOk == ~f.decoderRaises /\ f.intr # "decode"
        s2 == Log(s1, "Decoder", "f", decOk)
        s3 == [Log(s2, "audio.play", "sound", TRUE) EXCEPT !.playing = TRUE]
        \* the loop; the track ends by itself unless the last sleep is interrupted
        s4 == IF f.intr = "poll"
              THEN Stop(Sleep(Poll(s3, f.polls - 1), POLL, TRUE))
              ELSE [Poll(s3, f.polls) EXCEPT !.playing = FALSE]
    IN  IF ~openOk THEN OnPlayError(s1, f)
        ELSE IF f.intr = "decode" THEN Return(Stop(WithExit(s2)), "KeyboardInterrupt")
        ELSE IF ~decOk THEN OnPlayError(WithExit(s2), f)
        \* line 218 prints elapsed, which is unbound if the loop never ran
        ELSE IF f.polls = 0 THEN OnPlayError(WithExit(s4), f)
        ELSE AfterPlayback(WithExit(s4), f)

-----------------------------------------------------------------------------
(* The diagnostic scripts tests/test_sd_debug.py (three listings and the   *)
(* used space) and tests/test_cache_bug.py (two listings).  used_mb is in  *)
(* hundredths of a megabyte.                                               *)
CRITICAL_USED == 100    \* used_mb > 1
EMPTY_USED == 10        \* used_mb < 0.1
UsedSpace == {0, 5, 50, 200}

NoDiag == [len1 |-> 0, len2 |-> 0, len3 |-> 0, used_mb |-> 0,
           bug_type |-> None, cache_bug |-> None]

(* test_sd_debug.py, lines 200-239: the first pattern that matches *)
Diagnosis(len1, len2, len3, used_mb) ==
    IF len1 > 0 /\ len2 = 0 THEN "TIMEOUT"
    ELSE IF len1 = 0 /\ len2 > 0 THEN "CACHE"
    ELSE IF len1 = 0 /\ len2 = 0 /\ len3 > 0 THEN "CACHE_SEVERE"
    ELSE IF len1 = 0 /\ len2 = 0 /\ len3 = 0 /\ used_mb > CRITICAL_USED THEN "CRITICAL"
    ELSE IF used_mb < EMPTY_USED /\ len1 = 0 THEN "EMPTY"
    ELSE IF len1 > 0 /\ len2 > 0 /\ len3 > 0 THEN "NO_BUGS"
    ELSE "UNUSUAL"

(* test_cache_bug.py, lines 77-111 *)
CacheDiagnosis(len1, len2) ==
    IF len1 = 0 /\ len2 > 0 THEN "CACHE"
    ELSE IF len1 = len2 /\ len1 > 0 THEN "NO_BUGS"
    ELSE IF len1 > 0 /\ len2 = 0 THEN "TIMEOUT"
    ELSE IF len1 > 0 /\ len2 > 0 /\ len1 # len2 THEN "INCONSISTENT"
    ELSE IF len1 = 0 /\ len2 = 0 THEN "EMPTY"
    ELSE "UNKNOWN"

-----------------------------------------------------------------------------
(* play.play_all.  frame holds its locals while it runs: pc is "none"      *)
(* before the call, "track" at the top of the for loop's body,             *)
(* "returned" after it returned and "raised" if an exception left it.      *)
NoFrame == [pc |-> "none", files |-> <<>>, i |-> 0, repeat |-> FALSE]
NoHist == [catalog |-> <<>>, attempted |-> <<>>, unreadable |-> <<>>,
           reported |-> <<>>, first |-> <<>>, done |-> <<>>, passes |-> 0,
           cancelled |-> FALSE]

(* random.shuffle(files): some permutation p of the positions *)
Permutations(n) ==
    {p \in [1..n -> 1..n] : \A i, j \in 1..n : i # j => p[i] # p[j]}
shuffle(files, p) == [i \in 1..Len(files) |-> files[p[i]]]

(* line 274: the root a catalog path is on *)
RootOf(path) == IF startswith(path, <<"/", "s", "d", "/">>) THEN "/sd" ELSE "/"

(* lines 299-303: the end of a pass *)
EndOfPass_once(fr) == [fr EXCEPT !.pc = "returned"]
EndOfPass_reshuffles(fr) ==
    IF ~fr.repeat THEN [fr EXCEPT !.pc = "returned"]
    ELSE [fr EXCEPT !.i = 1,
                    !.files = [k \in 1..Len(@) |-> @[Len(@) + 1 - k]]]
EndOfPass(fr) ==
    IF ~fr.repeat THEN [fr EXCEPT !.pc = "returned"] ELSE [fr EXCEPT !.i = 1]

(* the entry cannot be opened (line 200) or decoded (lines 202, 205) *)
Unreadable(s, f) ==
    f.openRaises \/ (f.root = "/sd" /\ ~s.fsMounted) \/ f.decoderRaises

(* lines 292-297, the rest of one turn of the for loop after play_file    *)
(* ended in p: time.sleep(0.5), and a KeyboardInterrupt raised by          *)
(* play_file or by the pause stops the output and returns.  play_file's    *)
(* return value is not looked at.                                          *)
Turn(p, pauseIntr) ==
    IF p.ret = "KeyboardInterrupt" THEN Return(Stop(p), "None")
    ELSE IF p.ret \notin {"True", "False"} THEN p
    ELSE IF pauseIntr THEN Return(Stop(Sleep(p, TRACK_PAUSE, TRUE)), "None")
    ELSE Sleep(p, TRACK_PAUSE, FALSE)

-----------------------------------------------------------------------------
(* Actions *)
IoRaised(r) ==
    \E i \in 1..Len(r.calls) :
        r.calls[i].c = "os.listdir" /\ r.calls[i].arg = "/sd"
        /\ ~r.calls[i].ok /\ r.calls[i].m

(* The state r becomes the current one, op the last handler *)
Assign(r, op) ==
    /\ _spi' = r._spi /\ _sd' = r._sd /\ _vfs' = r._vfs
    /\ _mounted' = r._mounted
    /\ _last_operation_time' = r._last_operation_time
    /\ throttled' = r.throttled
    /\ SD_AVAILABLE' = r.SD_AVAILABLE
    /\ SDCARD_HELPER_AVAILABLE' = r.SDCARD_HELPER_AVAILABLE
    /\ busHeld' = r.busHeld /\ fsMounted' = r.fsMounted
    /\ playing' = r.playing /\ stream' = r.stream
    /\ rootDir' = r.rootDir /\ sdDir' = r.sdDir
    /\ directory' = r.directory /\ file_filter' = r.file_filter
    /\ audio_files' = r.audio_files
    /\ now' = r.now
    /\ lastOp' = op /\ ret' = r.ret /\ calls' = r.calls
    /\ ioFailure' = IF IoRaised(r) THEN "failed"
                    ELSE IF ioFailure = "failed" THEN "preceded" ELSE "none"
    /\ UNCHANGED diag

(* The handler op has run from the current state and ended in r *)
Set(r, op) ==
    /\ r.now <= MaxTime
    /\ Assign(r, op)
    /\ UNCHANGED <<frame, turns, hist>>

Init ==
    /\ _spi = None /\ _sd = None /\ _vfs = None
    /\ _mounted = FALSE
    /\ _last_operation_time = 0
    /\ throttled = FALSE
    /\ SD_AVAILABLE = FALSE
    /\ SDCARD_HELPER_AVAILABLE = FALSE
    /\ playLoaded = FALSE
    /\ busHeld = FALSE /\ fsMounted = FALSE
    /\ playing = FALSE /\ stream = None
    /\ rootDir = <<>> /\ sdDir = <<>>
    /\ directory = None /\ file_filter = None /\ audio_files = <<>>
    /\ frame = NoFrame /\ turns = 0 /\ hist = NoHist /\ diag = NoDiag
    /\ now = BootTime
    /\ lastOp = "init" /\ ret = "None" /\ calls = <<>>
    /\ ioFailure = "none"

PlayImport ==
    /\ ~playLoaded
    /\ \E f \in MountInputs(Cur) :
        LET r == play_import(Cur, f)
        IN  /\ Set(r, "play_import")
            /\ playLoaded' = (r.ret # "KeyboardInterrupt")

Mount ==
    /\ \E f \in MountInputs(Cur) : Set(mount(Cur, f), "mount")
    /\ UNCHANGED playLoaded

Unmount ==
    /\ \E f \in UnmountInputs(Cur) : Set(unmount(Cur, f), "unmount")
    /\ UNCHANGED playLoaded

ListFiles ==
    /\ \E f \in ListInputs : Set(list_files(Cur, f), "list_files")
    /\ UNCHANGED playLoaded

RefreshSd ==
    /\ playLoaded
    /\ \E f \in RefreshInputs(Cur) : Set(refresh_sd(Cur, f), "refresh_sd")
    /\ UNCHANGED playLoaded

GetAllAudioFiles ==
    /\ playLoaded
    /\ \E f \in CatalogInputs(Cur) :
          Set(get_all_audio_files(Cur, f), "get_all_audio_files")
    /\ UNCHANGED playLoaded

PrintInfo ==
    /\ \E f \in ListInputs : Set(print_info(Cur, f), "print_info")
    /\ UNCHANGED playLoaded

GetStats ==
    /\ \E f \in ListInputs : Set(get_stats(Cur, f), "get_stats")
    /\ UNCHANGED playLoaded

TestSd ==
    /\ \E f \in TestInputs : Set(test_sd(Cur, f), "test_sd")
    /\ UNCHANGED playLoaded

VerifySdStability ==
    /\ \E f \in StabilityInputs :
          Set(verify_sd_stability(Cur, f), "verify_sd_stability")
    /\ UNCHANGED playLoaded

(* Time passes between two handlers: one tick of the clock *)
Idle ==
    /\ now + 1 <= MaxTime
    /\ now' = now + 1
    /\ lastOp' = "idle" /\ ret' = "None" /\ calls' = <<>>
    /\ directory' = None /\ file_filter' = None /\ audio_files' = <<>>
    /\ UNCHANGED <<_spi, _sd, _vfs, _mounted, _last_operation_time, throttled,
                   SD_AVAILABLE, SDCARD_HELPER_AVAILABLE, playLoaded, busHeld,
                   fsMounted, playing, stream, rootDir, sdDir, frame, turns, hist, diag,
                   ioFailure>>

Next ==
    \/ PlayImport
    \/ Mount
    \/ Unmount
    \/ ListFiles
    \/ RefreshSd
    \/ GetAllAudioFiles
    \/ Idle

Spec == Init /\ [][Next]_vars

-----------------------------------------------------------------------------
(* The player: play.py has been imported (its top level mounted the card   *)
(* or failed to), then catalog listings and playback follow.               *)
Boot ==
    [ _spi |-> None, _sd |-> None, _vfs |-> None, _mounted |-> FALSE,
      _last_operation_time |-> 0, throttled |-> FALSE,
      SD_AVAILABLE |-> FALSE, SDCARD_HELPER_AVAILABLE |-> FALSE,
      busHeld |-> FALSE, fsMounted |-> FALSE,
      playing |-> FALSE, stream |-> None,
      rootDir |-> <<>>, sdDir |-> <<>>,
      directory |-> None, file_filter |-> None, audio_files |-> <<>>,
      now |-> BootTime,
      ret |-> "None", calls |-> <<>> ]

(* The top level of play.py has run and ended in r *)
Imported(r) ==
    /\ _spi = r._spi /\ _sd = r._sd /\ _vfs = r._vfs
    /\ _mounted = r._mounted
    /\ _last_operation_time = r._last_operation_time
    /\ throttled = r.throttled
    /\ SD_AVAILABLE = r.SD_AVAILABLE
    /\ SDCARD_HELPER_AVAILABLE = r.SDCARD_HELPER_AVAILABLE
    /\ playLoaded = TRUE
    /\ busHeld = r.busHeld /\ fsMounted = r.fsMounted
    /\ playing = r.playing /\ stream = r.stream
    /\ rootDir = r.rootDir /\ sdDir = r.sdDir
    /\ directory = r.directory /\ file_filter = r.file_filter
    /\ audio_files = r.audio_files
    /\ frame = NoFrame /\ turns = 0 /\ hist = NoHist /\ diag = NoDiag
    /\ now = r.now
    /\ lastOp = "play_import" /\ ret = r.ret /\ calls = r.calls
    /\ ioFailure = "none"

InitPlay ==
    \E f \in MountInputs(Boot) : ~f.intr /\ Imported(play_import(Boot, f))

PlayFile ==
    /\ playLoaded
    /\ \E f \in PlayInputs(Cur) : Set(play_file(Cur, f), "play_file")
    /\ UNCHANGED playLoaded

NextPlay ==
    \/ GetAllAudioFiles
    \/ PlayFile
    \/ Idle

SpecPlay == InitPlay /\ [][NextPlay]_vars

-----------------------------------------------------------------------------
(* The catalog as a function of what the volumes hold: play.py has been    *)
(* imported with a card in the slot or without one, the two roots hold any *)
(* listings of up to MaxFiles names together, the card may be unmounted,   *)
(* and one catalog call is made with any filter.                           *)
NoCard == [failAt |-> "sdcardio.SDCard", intr |-> FALSE]

InitCatalog ==
    \E f \in {MountOk, NoCard} :
    \E rd \in Listings(MaxFiles) :
    \E sd \in Listings(MaxFiles - Len(rd)) :
        Imported(play_import([Boot EXCEPT !.rootDir = rd, !.sdDir = sd], f))

GetAudioFiles ==
    /\ playLoaded
    /\ \E dir \in {"/", "/sd"}, ff \in Filters, f \in ListInputs :
          Set(get_audio_files(Cur, dir, ff, f), "get_audio_files")
    /\ UNCHANGED playLoaded

(* sdcard_helper.unmount() called once after the import, the card mounted *)
UnmountCard ==
    /\ lastOp = "play_import" /\ _mounted
    /\ Set(unmount(Cur, UnmountOk), "unmount")
    /\ UNCHANGED playLoaded

NextCatalog ==
    \/ UnmountCard
    \/ lastOp \in {"play_import", "unmount"} /\ GetAudioFiles
    \/ lastOp \in {"play_import", "unmount"} /\ GetAllAudioFiles

SpecCatalog == InitCatalog /\ [][NextCatalog]_vars

-----------------------------------------------------------------------------
(* sdcard_helper used on its own from the REPL: mount, unmount and the     *)
(* operations that use the card, on a card that holds up to one file.      *)
InitHelper ==
    /\ _spi = None /\ _sd = None /\ _vfs = None
    /\ _mounted = FALSE
    /\ _last_operation_time = 0
    /\ throttled = FALSE
    /\ SD_AVAILABLE = FALSE
    /\ SDCARD_HELPER_AVAILABLE = FALSE
    /\ playLoaded = FALSE
    /\ busHeld = FALSE /\ fsMounted = FALSE
    /\ playing = FALSE /\ stream = None
    /\ rootDir = <<>> /\ sdDir \in {<<>>, <<TEST_TXT>>}
    /\ directory = None /\ file_filter = None /\ audio_files = <<>>
    /\ frame = NoFrame /\ turns = 0 /\ hist = NoHist /\ diag = NoDiag
    /\ now = BootTime
    /\ lastOp = "init" /\ ret = "None" /\ calls = <<>>
    /\ ioFailure = "none"

(* mount() with a card, without one, and interrupted in its settling time *)
HelperMount ==
    /\ \E f \in {g \in MountInputs(Cur) : g.failAt \in {"none", "sdcardio.SDCard"}} :
          Set(mount(Cur, f), "mount")
    /\ UNCHANGED playLoaded

HelperUnmount ==
    /\ Set(unmount(Cur, UnmountOk), "unmount")
    /\ UNCHANGED playLoaded

NextHelper ==
    \/ HelperMount
    \/ HelperUnmount
    \/ ListFiles
    \/ PrintInfo
    \/ GetStats
    \/ TestSd
    \/ VerifySdStability

SpecHelper == InitHelper /\ [][NextHelper]_vars

-----------------------------------------------------------------------------
(* The player used through play.py alone: after the import, refresh_sd(),  *)
(* get_all_audio_files() and play_file() are called, and every call of     *)
(* refresh_sd runs to its return (no KeyboardInterrupt).                   *)
RefreshSdReturns ==
    /\ playLoaded
    /\ \E f \in {g \in RefreshInputs(Cur) :
                    g.u.end # "intr" /\ ~g.intr /\ ~g.m.intr} :
          Set(refresh_sd(Cur, f), "refresh_sd")
    /\ UNCHANGED playLoaded

NextPlayer ==
    \/ RefreshSdReturns
    \/ GetAllAudioFiles
    \/ PlayFile

SpecPlayer == InitPlay /\ [][NextPlayer]_vars

-----------------------------------------------------------------------------
(* The diagnostic scripts, run on the counts their listings returned *)
InitDiag ==
    /\ _spi = None /\ _sd = None /\ _vfs = None
    /\ _mounted = FALSE
    /\ _last_operation_time = 0
    /\ throttled = FALSE
    /\ SD_AVAILABLE = FALSE
    /\ SDCARD_HELPER_AVAILABLE = FALSE
    /\ playLoaded = FALSE
    /\ busHeld = FALSE /\ fsMounted = FALSE
    /\ playing = FALSE /\ stream = None
    /\ rootDir = <<>> /\ sdDir = <<>>
    /\ directory = None /\ file_filter = None /\ audio_files = <<>>
    /\ frame = NoFrame /\ turns = 0 /\ hist = NoHist
    /\ diag \in [len1 : 0..MaxCount, len2 : 0..MaxCount, len3 : 0..MaxCount,
                  used_mb : UsedSpace, bug_type : {None}, cache_bug : {None}]
    /\ now = BootTime
    /\ lastOp = "init" /\ ret = "None" /\ calls = <<>>
    /\ ioFailure = "none"

TestSdDebug ==
    /\ diag.bug_type = None
    /\ diag' = [diag EXCEPT !.bug_type = Diagnosis(diag.len1, diag.len2,
                                                    diag.len3, diag.used_mb)]
    /\ lastOp' = "test_sd_debug"
    /\ UNCHANGED <<_spi, _sd, _vfs, _mounted, _last_operation_time, throttled,
                   SD_AVAILABLE, SDCARD_HELPER_AVAILABLE, playLoaded, busHeld,
                   fsMounted, playing, stream, rootDir, sdDir, directory,
                   file_filter, audio_files, frame, turns, hist, now, ret,
                   calls, ioFailure>>

TestCacheBug ==
    /\ diag.cache_bug = None
    /\ diag' = [diag EXCEPT !.cache_bug = CacheDiagnosis(diag.len1, diag.len2)]
    /\ lastOp' = "test_cache_bug"
    /\ UNCHANGED <<_spi, _sd, _vfs, _mounted, _last_operation_time, throttled,
                   SD_AVAILABLE, SDCARD_HELPER_AVAILABLE, playLoaded, busHeld,
                   fsMounted, playing, stream, rootDir, sdDir, directory,
                   file_filter, audio_files, frame, turns, hist, now, ret,
                   calls, ioFailure>>

NextDiag ==
    \/ TestSdDebug
    \/ TestCacheBug

SpecDiag == InitDiag /\ [][NextDiag]_vars

-----------------------------------------------------------------------------
(* The sequencer: play.py has been imported with a card in the slot, the   *)
(* two roots hold up to MaxTracks audio files together, play_all is called *)
(* once and runs turn by turn.                                             *)
TrackNames ==
    {n \in FileNames : ~Excluded(n) /\ IsAudio(n) /\ ~startswith(n, <<"x">>)}
TrackListings(n) ==
    {l \in Listings(n) : l = sort(l) /\ \A i \in 1..Len(l) : l[i] \in TrackNames}

InitSeq ==
    \E rd \in TrackListings(MaxTracks) :
    \E sd \in TrackListings(MaxTracks - Len(rd)) :
        Imported(play_import([Boot EXCEPT !.rootDir = rd, !.sdDir = sd], MountOk))

(* play_all(shuffle, repeat) up to the loop: lines 249-285.  r is the     *)
(* state get_all_audio_files left.                                         *)
Enter(r, sh, rp) ==
    \E p \in IF sh THEN Permutations(Len(r.audio_files))
              ELSE {[k \in 1..Len(r.audio_files) |-> k]} :
        /\ Assign(Return(r, "None"), "play_all")
        /\ frame' = IF r.audio_files = <<>>
                     THEN [NoFrame EXCEPT !.pc = "returned", !.repeat = rp]
                     ELSE [pc |-> "track", files |-> shuffle(r.audio_files, p),
                           i |-> 1, repeat |-> rp]
        /\ turns' = 0
        /\ hist' = [NoHist EXCEPT !.catalog = r.audio_files]

PlayAllCall ==
    /\ playLoaded /\ frame.pc = "none"
    /\ \E sh \in BOOLEAN, rp \in BOOLEAN :
       \E f \in {g \in CatalogInputs(Cur) : g.file_filter = None /\ ~g.internalRaises} :
          Enter(get_all_audio_files(Cur, f), sh, rp)
    /\ UNCHANGED playLoaded

(* The turn of entry has ended in r; bad: the entry could not be opened or *)
(* decoded; failed: play_file reported a failure; cancel: a                *)
(* KeyboardInterrupt was raised during the turn.  With the last entry's    *)
(* turn the pass ends: lines 299-303.                                      *)
Advance(r, entry, bad, failed, cancel) ==
    /\ Assign(IF r.ret \in {"True", "False"} /\ frame.i = Len(frame.files) /\ frame.repeat
              THEN Collect(r, FALSE) ELSE r, "play_all")
    /\ frame' = IF r.ret = "None" THEN [frame EXCEPT !.pc = "returned"]
                 ELSE IF r.ret \notin {"True", "False"} THEN [frame EXCEPT !.pc = "raised"]
                 ELSE IF frame.i = Len(frame.files) THEN EndOfPass(frame)
                 ELSE [frame EXCEPT !.i = @ + 1]
    /\ turns' = turns + 1
    /\ hist' = [hist EXCEPT
          !.attempted = IF hist.done # <<>> /\ frame.i = 1 THEN <<entry>>
                        ELSE Append(@, entry),
          !.unreadable = IF hist.done # <<>> /\ frame.i = 1
                         THEN (IF bad THEN <<entry>> ELSE <<>>)
                         ELSE IF bad THEN Append(@, entry) ELSE @,
          !.reported = IF hist.done # <<>> /\ frame.i = 1
                       THEN (IF failed THEN <<entry>> ELSE <<>>)
                       ELSE IF failed THEN Append(@, entry) ELSE @,
          !.first = IF hist.passes = 0 THEN Append(@, entry) ELSE @,
          !.done = IF r.ret \in {"True", "False"} /\ frame.i = Len(frame.files)
                   THEN (IF hist.done # <<>> /\ frame.i = 1 THEN <<entry>>
                         ELSE Append(hist.attempted, entry))
                   ELSE @,
          !.passes = IF r.ret \in {"True", "False"} /\ frame.i = Len(frame.files)
                     THEN @ + 1 ELSE @,
          !.cancelled = @ \/ cancel]

(* play_all is in its loop; it is followed until the clock stops *)
Running == frame.pc = "track" /\ now <= MaxTime

(* one turn of play_all's loop: lines 290-303 *)
PlayAllTurn ==
    /\ Running
    /\ \E f \in {g \in PlayInputs(Cur) : g.root = RootOf(frame.files[frame.i])},
          pauseIntr \in BOOLEAN :
          /\ pauseIntr => f.intr \in {"none", "poll"}
          /\ Advance(Turn(play_file(Cur, f), pauseIntr), frame.files[frame.i],
                     Unreadable(Cur, f), play_file(Cur, f).ret = "False",
                     f.intr # "none" \/ pauseIntr)
    /\ UNCHANGED playLoaded

NextSeq ==
    \/ PlayAllCall
    \/ PlayAllTurn

(* The interpreter goes on with the loop as long as play_all has not       *)
(* returned: a turn, which is the step that counts turns up, is taken.     *)
SpecSeq == InitSeq /\ [][NextSeq]_vars /\ WF_turns(Running /\ turns' = turns + 1)

-----------------------------------------------------------------------------
(* A catalog outlives the mount: files = get_all_audio_files() is taken    *)
(* with the card mounted, sdcard_helper.unmount() is called, then          *)
(* play_file(files[k]) for an entry of the catalog.                        *)
Taken(r) ==
    /\ r.now <= MaxTime
    /\ Assign(r, "get_all_audio_files")
    /\ hist' = [NoHist EXCEPT !.catalog = r.audio_files]
    /\ UNCHANGED <<frame, turns>>

TakeCatalog ==
    /\ playLoaded /\ lastOp = "play_import"
    /\ \E f \in CatalogInputs(Cur) : Taken(get_all_audio_files(Cur, f))
    /\ UNCHANGED playLoaded

DetachCard == lastOp = "get_all_audio_files" /\ Unmount

PlayEntry ==
    /\ playLoaded /\ lastOp \in {"get_all_audio_files", "unmount"}
    /\ \E k \in 1..Len(hist.catalog) :
       \E f \in {g \in PlayInputs(Cur) : g.root = RootOf(hist.catalog[k])} :
          Set(play_file(Cur, f), "play_file")
    /\ UNCHANGED playLoaded

NextDetach ==
    \/ TakeCatalog
    \/ DetachCard
    \/ PlayEntry

SpecDetach == InitSeq /\ [][NextDetach]_vars

TypeOK ==
    /\ _spi \in {None, "SPI"} /\ _sd \in {None, "SDCard"} /\ _vfs \in {None, "VfsFat"}
    /\ _mounted \in BOOLEAN /\ SD_AVAILABLE \in BOOLEAN /\ throttled \in BOOLEAN
    /\ _last_operation_time \in 0..MaxTime /\ now \in BootTime..MaxTime
    /\ busHeld \in BOOLEAN /\ fsMounted \in BOOLEAN
    /\ playing \in BOOLEAN /\ stream \in {None, "open", "closed"}

-----------------------------------------------------------------------------
(* Reading the trace of driver calls *)
Called(cs, c, ok) == \E i \in 1..Len(cs) : cs[i].c = c /\ cs[i].ok = ok
Names(cs) == [i \in 1..Len(cs) |-> cs[i].c]
Returned == ret \in {"True", "False"}
Refs == <<_spi, _sd, _vfs>>
NoRefs == <<None, None, None>>

-----------------------------------------------------------------------------
(* C1: mount() called while already mounted returns True, makes no driver  *)
(* call at all (no bus, card, filesystem or mount acquisition, no sleep)   *)
(* and leaves the module state, the hardware and the clock unchanged.      *)
C1_MountIdempotent ==
    [][(lastOp' = "mount" /\ _mounted) =>
          /\ ret' = "True"
          /\ calls' = <<>>
          /\ UNCHANGED <<_spi, _sd, _vfs, _mounted, _last_operation_time,
                         SD_AVAILABLE, busHeld, fsMounted, now>>]_vars

C1_Witness ==
    /\ lastOp = "mount" /\ ret = "True" /\ calls = <<>>
    /\ _mounted /\ fsMounted

(* C2: when unmount() returns (True or False), is_mounted() is false,      *)
(* whichever cleanup call raised and whether or not a listing failed       *)
(* before.                                                                 *)
C2_UnmountAlwaysUnmounted ==
    (lastOp = "unmount" /\ Returned) => ~is_mounted(Cur)

C2_Witness ==
    /\ lastOp = "unmount" /\ ret = "True" /\ ~_mounted
    /\ Called(calls, "storage.umount", FALSE)
    /\ ioFailure = "preceded"

(* C3: a mount() that returns False has released what the attempt had      *)
(* acquired: the state is unmounted and the SPI bus the attempt claimed is *)
(* no longer held.                                                         *)
C3_FailedMountReleases ==
    (lastOp = "mount" /\ ret = "False") =>
        /\ ~_mounted
        /\ Called(calls, "busio.SPI", TRUE) => ~busHeld
        /\ Called(calls, "storage.mount", TRUE) => ~fsMounted

(* C4: a refresh_sd() that went through its unmount / remount cycle and    *)
(* returned leaves _mounted true exactly when the remount succeeded (and   *)
(* then returns True), false when it failed; no handle is left behind.     *)
C4_RefreshEndsMountedOrUnmounted ==
    (lastOp = "refresh_sd" /\ Returned /\ calls # <<>>) =>
        /\ _mounted <=> Called(calls, "storage.mount", TRUE)
        /\ _mounted <=> (ret = "True")
        /\ Refs = NoRefs

C4_Witness ==
    /\ lastOp = "refresh_sd" /\ ret = "True" /\ _mounted
    /\ ioFailure = "preceded"
    /\ Called(calls, "storage.umount", TRUE)

-----------------------------------------------------------------------------
(* unmount() followed by mount(), as a caller would write it: an           *)
(* exception leaving unmount() ends the sequence.                          *)
UnmountThenMount(s, f) ==
    LET u == unmount(s, f.u)
    IN  IF u.ret = "KeyboardInterrupt" THEN u ELSE mount(u, f.m)

(* The storage state: mounted flag, handles, rate-limiter timestamp and    *)
(* what is held of the hardware.                                           *)
Storage(s) ==
    <<s._mounted, s._spi, s._sd, s._vfs, s._last_operation_time,
      s.busHeld, s.fsMounted>>

(* Every device behaviour for unmount() then mount() from s *)
SequenceInputs(s) ==
    {f \in [u : UnmountInputs(s),
            m : MountInputs([s EXCEPT !._mounted = FALSE]),
            intr : {FALSE}] :
        f.u.end = "intr" => f.m = MountOk}

SameAsUnmountThenMount(s, f) ==
    LET r == refresh_sd(s, f)
        q == UnmountThenMount(s, f)
    IN  Storage(r) = Storage(q) /\ r.ret = q.ret

CatalogOk == [internalRaises |-> FALSE, sd |-> ListOk, file_filter |-> None]
SdListed(cs) ==
    \E i \in 1..Len(cs) : cs[i].c = "os.listdir" /\ cs[i].arg = "/sd" /\ cs[i].ok
Recovered(s) ==
    /\ s.ret = "True"
    /\ is_mounted(s)
    /\ SdListed(get_all_audio_files(s, CatalogOk).calls)

C6_RecoverableByRefreshOrMount ==
    playLoaded =>
        \/ Recovered(refresh_sd(Cur, RefreshOk))
        \/ Recovered(mount(Cur, MountOk))

(* C7, as claimed: a listing of the mounted volume that fails changes the  *)
(* mount state to one that can be told from mounted.                       *)
ListingFailed ==
    /\ lastOp' \in {"list_files", "get_all_audio_files"}
    /\ _mounted
    /\ \E i \in 1..Len(calls') :
          calls'[i].c = "os.listdir" /\ calls'[i].arg = "/sd" /\ ~calls'[i].ok

C8_UnmountReleasesBus ==
    (lastOp = "unmount" /\ ret = "True" /\ calls # <<>>) =>
        /\ ~busHeld
        /\ Refs = NoRefs

(* C9: acquisition starts only while _mounted is false and is never        *)
(* partial: each acquisition call is made with _mounted false, a card,     *)
(* filesystem or mount call directly follows the successful call of the    *)
(* stage before it, and _mounted only falls at the end of an unmount().    *)
Acquisition == <<"busio.SPI", "sdcardio.SDCard", "storage.VfsFat", "storage.mount">>
Stage(c) == CHOOSE k \in 1..Len(Acquisition) : Acquisition[k] = c
IsAcquisition(c) == \E k \in 1..Len(Acquisition) : Acquisition[k] = c
UnmountEnds(e) ==
    \/ e.c = "time.sleep" /\ e.arg = UNMOUNT_SETTLE /\ e.ok
    \/ e.c = "gc.collect" /\ ~e.ok

C9_AcquireOnlyUnmounted ==
    [][/\ \A i \in 1..Len(calls') :
            IsAcquisition(calls'[i].c) =>
                /\ ~calls'[i].m
                /\ Stage(calls'[i].c) > 1 =>
                      /\ i > 1
                      /\ calls'[i-1].c = Acquisition[Stage(calls'[i].c) - 1]
                      /\ calls'[i-1].ok
       /\ \A i \in 1..Len(calls') :
            (i > 1 /\ calls'[i-1].m /\ ~calls'[i].m) => UnmountEnds(calls'[i-1])
       /\ (_mounted /\ ~_mounted') =>
            /\ lastOp' \in {"unmount", "refresh_sd"}
            /\ \E i \in 1..Len(calls') : calls'[i].m /\ UnmountEnds(calls'[i])
       /\ (calls' # <<>> /\ IsAcquisition(calls'[1].c)) => ~_mounted
      ]_vars

C9_Witness ==
    /\ lastOp = "refresh_sd" /\ ret = "True" /\ _mounted
    /\ Called(calls, "storage.umount", TRUE)
    /\ Names(calls) = <<"storage.umount", "gc.collect", "time.sleep", "time.sleep">>
                        \o Acquisition \o <<"time.sleep">>

(* C10, as claimed: a successful mount() from the unmounted state makes    *)
(* exactly one listing of /sd, after the settling sleep, as its last call. *)
AcquiringMount == lastOp = "mount" /\ ret = "True" /\ calls # <<>>

-----------------------------------------------------------------------------
(* The steps in which _check_rate_limit is called (once: list_files past   *)
(* its guard, directly or from the catalog listing of /sd).  Nothing else  *)
(* in these handlers sleeps, so a completed time.sleep in the trace is the *)
(* throttle blocking.                                                      *)
ThrottleStep ==
    /\ lastOp' \in {"list_files", "get_all_audio_files"}
    /\ Called(calls', "_check_rate_limit", TRUE)
Slept(cs, t) ==
    \E i \in 1..Len(cs) : cs[i].c = "time.sleep" /\ cs[i].arg = t /\ cs[i].ok
Blocked(cs) == Called(cs, "time.sleep", TRUE)

(* C11: when _check_rate_limit is called while a timestamp of an earlier   *)
(* call is recorded (no unmount reset it in between), whatever the time of *)
(* the call, the timestamp it records is at least 0.5 s later than the     *)
(* recorded one.                                                           *)
C11_SpacingLowerBound ==
    [][(ThrottleStep /\ _last_operation_time > 0) =>
           _last_operation_time' >= _last_operation_time + MIN_SPACING]_vars

(* A second call that arrived 0.1 s after the first and was held back *)
C11_Witness ==
    /\ lastOp = "list_files" /\ ret = "names"
    /\ Slept(calls, MIN_SPACING - 1)
    /\ _last_operation_time = now

(* C12: _check_rate_limit blocks exactly when it has been called before    *)
(* and less than 0.5 s have passed since the recorded timestamp, and then  *)
(* for exactly the remaining time; the first call never blocks; every call *)
(* ends by recording the current time as the new timestamp.                *)
C12_BlocksExactlyRemaining ==
    [][ThrottleStep =>
        LET early == throttled /\ now - _last_operation_time < MIN_SPACING
        IN  /\ Blocked(calls') <=> early
            /\ early => /\ Slept(calls', MIN_SPACING - (now - _last_operation_time))
                        /\ now' = _last_operation_time + MIN_SPACING
            /\ ~early => now' = now
            /\ ~throttled => ~Blocked(calls')
            /\ throttled'
            /\ _last_operation_time' = now']_vars

(* A call 0.3 s after the previous one has blocked for 0.2 s *)
C12_Witness ==
    /\ lastOp = "get_all_audio_files" /\ throttled
    /\ Slept(calls, 2) /\ Len(calls) = 4
    /\ _last_operation_time = now

-----------------------------------------------------------------------------
(* A storage operation on the removable volume: a listing of /sd or the    *)
(* opening of a file under /sd (its reads follow from the decoder) that    *)
(* reached the card.                                                       *)
StorageOp(e) == e.c \in {"os.listdir", "open"} /\ e.arg = "/sd" /\ e.ok
ThrottledAt(cs, i) ==
    \E j \in 1..(i-1) :
        /\ cs[j].c = "_check_rate_limit"
        /\ \A k \in (j+1)..(i-1) : ~StorageOp(cs[k])

(* C13: every storage operation on the removable volume issued by the      *)
(* catalog listing or by play_file is preceded by a call of                *)
(* _check_rate_limit made after the previous storage operation.            *)
C13_StorageOpsThrottled ==
    lastOp \in {"get_all_audio_files", "play_file"} =>
        \A i \in 1..Len(calls) : StorageOp(calls[i]) => ThrottledAt(calls, i)

-----------------------------------------------------------------------------
PlayFileLeft == lastOp = "play_file"
LastCall == calls[Len(calls)]

(* C19: however play_file is left (return True, return False after an open *)
(* or decoder error, KeyboardInterrupt), audio.stop() has been called, the *)
(* output is not playing, and the file that was opened is closed.          *)
C19_StoppedAndClosedOnExit ==
    PlayFileLeft =>
        /\ Called(calls, "audio.stop", TRUE) /\ ~playing
        /\ stream # "open"
        /\ Called(calls, "open", TRUE) => stream = "closed"

(* play_file left by a KeyboardInterrupt while the decoder was reading *)
C19_Witness ==
    /\ PlayFileLeft /\ ret = "KeyboardInterrupt"
    /\ Called(calls, "open", TRUE) /\ Called(calls, "Decoder", FALSE)
    /\ stream = "closed" /\ ~playing

(* C20: on every return path of play_file, the one after an open or        *)
(* decoder error included, the last thing done is the completed settle     *)
(* sleep of 0.3 s.                                                         *)
C20_SettleOnEveryReturn ==
    (PlayFileLeft /\ Returned) =>
        LastCall.c = "time.sleep" /\ LastCall.arg = PLAY_SETTLE /\ LastCall.ok

(* C20 as the code has it: play_file ends with the completed settle sleep  *)
(* of 0.3 s exactly when it returns True; when it returns False (open or   *)
(* decoder error) it has not slept 0.3 s and the clock has not advanced    *)
(* since the error.                                                        *)
C20_SettleOnlyOnSuccess ==
    (PlayFileLeft /\ Returned) =>
        /\ ret = "True" =>
              LastCall.c = "time.sleep" /\ LastCall.arg = PLAY_SETTLE /\ LastCall.ok
        /\ ret = "False" =>
              LastCall.c = "gc.collect" /\ ~Slept(calls, PLAY_SETTLE)

(* play_file returned False because the decoder rejected a file on the card *)
C20_Witness ==
    /\ PlayFileLeft /\ ret = "False"
    /\ Called(calls, "open", TRUE) /\ calls[1].arg = "/sd"
    /\ Called(calls, "Decoder", FALSE)
    /\ LastCall.c = "gc.collect" /\ stream = "closed"

-----------------------------------------------------------------------------
(* Reading a catalog result against what the volumes hold *)
Range(l) == {l[i] : i \in 1..Len(l)}
(* what a listing of dir can see: the card's names only while it is mounted *)
Visible(dir) == IF dir # "/sd" THEN rootDir ELSE IF fsMounted THEN sdDir ELSE <<>>
Ascending(l) == \A i, j \in 1..Len(l) : i < j => str_lt(l[i], l[j])
ReadFailed == Called(calls, "os.listdir", FALSE)
FilterRaised(dir, ff) == \E n \in Range(Visible(dir)) : Keep(n, ff) = "raises"
(* l is the complete filtered, sorted listing of dir *)
CompleteListing(l, dir, ff) ==
    /\ ~ReadFailed /\ ~FilterRaised(dir, ff)
    /\ Range(l) = {filepath(dir, n) : n \in {m \in Range(Visible(dir)) : Keep(m, ff) = "keep"}}
    /\ Ascending(l)

(* C14: get_audio_files returns the complete filtered, sorted listing, or  *)
(* it fails (the read or the caller's predicate raised) and then returns   *)
(* no entries: never a partial or unsorted list.                           *)
C14_CompleteOrNothing ==
    lastOp = "get_audio_files" =>
        \/ CompleteListing(audio_files, directory, file_filter)
        \/ /\ ReadFailed \/ FilterRaised(directory, file_filter)
           /\ audio_files = <<>>

-----------------------------------------------------------------------------
OnSd(path) == startswith(path, <<"/", "s", "d", "/">>)
NoDuplicates(l) == Cardinality(Range(l)) = Len(l)
Paths(dir, names) == {filepath(dir, n) : n \in names}
(* an audio entry: not hidden, not the mount point sd, and the lower-cased *)
(* name ends in .wav or .mp3                                               *)
AudioEntry(n) ==
    /\ n[1] # "." /\ n # <<"s", "d">>
    /\ \/ endswith(lower(n), <<".", "w", "a", "v">>)
       \/ endswith(lower(n), <<".", "m", "p", "3">>)
AudioEntries(dir) == {n \in Range(Visible(dir)) : AudioEntry(n)}
CatalogReturned == lastOp = "get_all_audio_files" /\ ret = "all_files"
Listed == lastOp = "get_audio_files" /\ ~ReadFailed

(* C15: get_all_audio_files(None), both listings read, returns the audio   *)
(* paths of the internal root in ascending order followed by those of the  *)
(* removable root in ascending order; no removable entry precedes an       *)
(* internal one.                                                           *)
C15_InternalThenRemovable ==
    (CatalogReturned /\ file_filter = None /\ ~ReadFailed) =>
        \E k \in 0..Len(audio_files) :
            LET internal == SubSeq(audio_files, 1, k)
                removable == SubSeq(audio_files, k + 1, Len(audio_files))
            IN  /\ Range(internal) = Paths("/", AudioEntries("/"))
                /\ Range(removable) = Paths("/sd", AudioEntries("/sd"))
                /\ Ascending(internal) /\ Ascending(removable)
                /\ \A i \in 1..Len(audio_files) : OnSd(audio_files[i]) <=> i > k

(* two internal entries listed in descending order, then one of the card *)
C15_Witness ==
    /\ CatalogReturned /\ file_filter = None /\ ~ReadFailed
    /\ Len(rootDir) = 2 /\ Len(sdDir) = 1 /\ Len(audio_files) = 3
    /\ audio_files[1] = filepath("/", rootDir[2])
    /\ audio_files[2] = filepath("/", rootDir[1])
    /\ audio_files[3] = filepath("/sd", sdDir[1])

(* C16: when the listing of the removable root raises, or the card is not  *)
(* mounted, get_all_audio_files still returns, and returns exactly the     *)
(* entries of the internal root (its own listing read, the filter not      *)
(* raising).                                                               *)
SdListingRaised ==
    \E i \in 1..Len(calls) :
        calls[i].c = "os.listdir" /\ calls[i].arg = "/sd" /\ ~calls[i].ok
InternalRead ==
    \E i \in 1..Len(calls) :
        calls[i].c = "os.listdir" /\ calls[i].arg = "/" /\ calls[i].ok
C16_InternalOnlyWhenSdFails ==
    (lastOp = "get_all_audio_files" /\ (SdListingRaised \/ ~_mounted)) =>
        /\ ret = "all_files"
        /\ (InternalRead /\ ~FilterRaised("/", file_filter)) =>
              /\ Range(audio_files) =
                    Paths("/", {n \in AudioEntries("/") : Keep(n, file_filter) = "keep"})
              /\ Ascending(audio_files)

(* the listing of a mounted card that holds an audio file raised *)
C16_Witness ==
    /\ CatalogReturned /\ SdListingRaised /\ _mounted /\ fsMounted
    /\ AudioEntries("/sd") # {} /\ AudioEntries("/") # {}
    /\ Range(audio_files) = Paths("/", AudioEntries("/"))

C18_NoFilterSelectsAudio ==
    (Listed /\ file_filter = None) =>
        /\ Range(audio_files) = Paths(directory, AudioEntries(directory))
        /\ NoDuplicates(audio_files)

(* the internal root holds A.MP3, the hidden .c.mp3 and sd: only A.MP3 is listed *)
C18_Witness ==
    /\ Listed /\ file_filter = None /\ directory = "/"
    /\ Range(rootDir) = { <<"A", ".", "M", "P", "3">>, SD_ENTRY,
                          <<".", "c", ".", "m", "p", "3">> }
    /\ audio_files = << <<"/", "A", ".", "M", "P", "3">> >>

-----------------------------------------------------------------------------
(* play_all *)
InPass == frame.pc = "track" /\ frame.i > 1
PassOver == frame.pc = "returned" /\ ~hist.cancelled /\ frame.files # <<>>
ReportsAbout(entries) ==
    SelectSeq(hist.reported, LAMBDA e : e \in Range(entries))

C22_CancelEndsPlayAll ==
    hist.cancelled => frame.pc = "returned" /\ ~playing

-----------------------------------------------------------------------------
(* cancel inside play_file's polling loop *)
CancelAt(cs, k) == cs[k].c = "time.sleep" /\ cs[k].arg = POLL /\ ~cs[k].ok
SleepsAfter(cs, k) ==
    SelectSeq(SubSeq(cs, k + 1, Len(cs)), LAMBDA e : e.c = "time.sleep")
CancelledInLoop ==
    lastOp' = "play_file" /\ \E k \in 1..Len(calls') : CancelAt(calls', k)

-----------------------------------------------------------------------------
Permutation(a, b) == Len(a) = Len(b) /\ Range(a) = Range(b)

(* C24: the playlist is put in order once, before the first pass: the      *)
(* order played is a permutation of the catalog, and every later pass      *)
(* plays the entries in the order of the first pass.                       *)
C24_ShuffledOnce ==
    /\ frame.pc # "none" => Permutation(frame.files, hist.catalog)
    /\ hist.passes >= 1 =>
          /\ Permutation(hist.first, hist.catalog)
          /\ hist.done = hist.first
          /\ InPass => hist.attempted = SubSeq(hist.first, 1, frame.i - 1)

C24_Witness ==
    /\ hist.passes = 2 /\ frame.repeat
    /\ Len(hist.catalog) = 2 /\ hist.first # hist.catalog
    /\ hist.done = hist.first

-----------------------------------------------------------------------------
(* C25: without a cancel play_all returns only when repeat is false, and   *)
(* then every entry of the catalog has been attempted once, in order;      *)
(* with repeat it never returns.                                           *)
C25_OnePassOrForever ==
    (frame.pc = "returned" /\ ~hist.cancelled) =>
        ~frame.repeat /\ hist.attempted = frame.files

(* C25 as the code has it: the above for a catalog that is not empty; on   *)
(* an empty catalog play_all returns at once, with repeat or without.      *)
(* Passes with repeat are followed until the clock of the model stops.     *)
C25_PassesOfNonEmptyCatalog ==
    /\ [](PassOver => ~frame.repeat /\ hist.passes = 1 /\ hist.done = frame.files)
    /\ []((frame.pc = "returned" /\ frame.files = <<>>) =>
            hist.catalog = <<>> /\ hist.passes = 0 /\ hist.attempted = <<>>)
    /\ [](hist.passes >= 1 => hist.done = frame.files)
    /\ [](InPass => hist.attempted = SubSeq(frame.files, 1, frame.i - 1))
    /\ ((frame.pc = "track" /\ ~frame.repeat) ~> frame.pc = "returned")
    /\ ((frame.pc = "track" /\ frame.repeat) ~>
            (hist.cancelled \/ (frame.pc = "track" /\ now > MaxTime)))

C25_Witness ==
    /\ PassOver /\ ~frame.repeat /\ Len(frame.files) = 2
    /\ hist.passes = 1 /\ hist.done = frame.files /\ hist.reported = <<>>

-----------------------------------------------------------------------------
(* sdcard_helper's operations on the card *)
CardOps == {"print_info", "test_sd", "list_files", "get_stats", "verify_sd_stability"}
StorageCalls == {"os.listdir", "os.statvfs", "os.stat", "open"}

(* C26: print_info, test_sd, list_files, get_stats and                     *)
(* verify_sd_stability make no storage call while the helper is not        *)
(* mounted.                                                                *)
C26_NoStorageCallWhileUnmounted ==
    lastOp \in CardOps =>
        \A k \in 1..Len(calls) : calls[k].c \in StorageCalls => calls[k].m

-----------------------------------------------------------------------------
(* The category the classification is said to give *)
Classified(d) ==
    IF d.len1 = 0 /\ d.len2 > 0 THEN "CACHE"
    ELSE IF d.len1 > 0 /\ d.len2 = 0 THEN "TIMEOUT"
    ELSE IF d.len1 = 0 /\ d.len2 = 0 /\ d.len3 > 0 THEN "CACHE_SEVERE"
    ELSE IF d.len1 = 0 /\ d.len2 = 0 /\ d.len3 = 0 /\ d.used_mb > 0 THEN "CRITICAL"
    ELSE IF d.len1 = 0 /\ d.len2 = 0 /\ d.len3 = 0 THEN "EMPTY"
    ELSE IF d.len1 > 0 /\ d.len2 > 0 /\ d.len3 > 0
            /\ ~(d.len1 = d.len2 /\ d.len2 = d.len3) THEN "INCONSISTENT"
    ELSE "NO_BUGS"

(* C27: the three-listing diagnostic puts every combination of three       *)
(* counts and used space in the one category named for it: CacheBug,       *)
(* TimeoutBug, SevereCacheBug, CriticalFailure, InconsistentRead,          *)
(* EmptyMedia, and NoBug otherwise.                                        *)
C27_ClassifiedAsStated ==
    diag.bug_type # None => diag.bug_type = Classified(diag)

-----------------------------------------------------------------------------
(* C28: mount() does not call the rate limiter and leaves its timestamp    *)
(* as it was, whether it mounts, fails or finds the card mounted.          *)
C28_MountLeavesLimiterAlone ==
    [][lastOp' = "mount" =>
        /\ _last_operation_time' = _last_operation_time
        /\ \A k \in 1..Len(calls') : calls'[k].c # "_check_rate_limit"]_vars

C28_Witness ==
    /\ lastOp = "mount" /\ calls # <<>>
    /\ _last_operation_time > 0 /\ now > _last_operation_time

-----------------------------------------------------------------------------
(* a catalog entry is the path of a name on one of the two roots, and no   *)
(* file is open once the catalog has been returned                         *)
PathStrings(l) ==
    \A i \in 1..Len(l) :
        l[i] \in Paths("/", Range(rootDir)) \cup Paths("/sd", Range(sdDir))
MountState == <<_mounted, SD_AVAILABLE, fsMounted, _spi, _sd, _vfs>>
Detached == ~fsMounted /\ ~_mounted
PlaysRemovableEntry ==
    lastOp' = "play_file" /\ calls'[1].c = "open" /\ calls'[1].arg = "/sd"

(* C29: the catalog holds path strings only; play_file on a removable-root *)
(* entry of a catalog taken before the card was unmounted returns False    *)
(* with the output stopped and leaves the mount state as it was.           *)
C29_StaleEntryFailsAlone ==
    /\ [](PathStrings(hist.catalog) /\ (lastOp = "get_all_audio_files" => stream # "open"))
    /\ [][(Detached /\ PlaysRemovableEntry) =>
            /\ ret' = "False" /\ ~playing' /\ stream' # "open"
            /\ ~calls'[1].ok /\ Called(calls', "audio.stop", TRUE)
            /\ MountState' = MountState]_vars

C29_Witness ==
    /\ lastOp = "play_file" /\ ret = "False" /\ Detached
    /\ calls[1].c = "open" /\ calls[1].arg = "/sd" /\ ~calls[1].ok
    /\ \E i \in 1..Len(hist.catalog) : OnSd(hist.catalog[i])

-----------------------------------------------------------------------------
(* C30: after a KeyboardInterrupt in a settling sleep of mount(),          *)
(* unmount() or refresh_sd(), is_mounted(), SD_AVAILABLE and the mount of  *)
(* the filesystem agree.                                                   *)
C30_InterruptLeavesAgreement ==
    (lastOp \in {"mount", "unmount", "refresh_sd"} /\ ret = "KeyboardInterrupt") =>
        /\ _mounted = fsMounted
        /\ playLoaded => SD_AVAILABLE = _mounted

-----------------------------------------------------------------------------
(* a call of mount() or unmount() that ran to its return *)
MountCallReturned == lastOp' \in {"mount", "unmount"} /\ ret' \in {"True", "False"}

(* C31: is_mounted() tells whether the filesystem is mounted at /sd: a     *)
(* mount() or unmount() that starts with the two in agreement and returns, *)
(* whichever of its driver calls fail, leaves them in agreement.           *)
C31_FlagTracksFilesystem ==
    [][(MountCallReturned /\ _mounted = fsMounted) => _mounted' = fsMounted']_vars

-----------------------------------------------------------------------------
(* C32: after the import of play.py and after any sequence of refresh_sd,  *)
(* listing and playback calls, SD_AVAILABLE equals is_mounted().           *)
C32_FlagEqualsIsMounted == SD_AVAILABLE = is_mounted(Cur)

C32_Witness ==
    /\ lastOp = "refresh_sd" /\ ret = "False"
    /\ Called(calls, "storage.umount", TRUE)
    /\ Called(calls, "sdcardio.SDCard", FALSE)
    /\ ~SD_AVAILABLE /\ ~_mounted

-----------------------------------------------------------------------------
(* unmount() was called with the card mounted and returned *)
UnmountedFromMounted == lastOp' = "unmount" /\ _mounted /\ ret' \in {"True", "False"}
(* the last call was a mount() that mounted the card *)
Remounted == lastOp = "mount" /\ ret = "True" /\ Called(calls, "storage.mount", TRUE)

-----------------------------------------------------------------------------
(* the entry was opened, decoded and handed to the output, and no          *)
(* KeyboardInterrupt came while play_file ran                               *)
PlayedThrough ==
    /\ Called(calls, "open", TRUE) /\ Called(calls, "Decoder", TRUE)
    /\ Called(calls, "audio.play", TRUE)
    /\ ~Called(calls, "time.sleep", FALSE)

(* C34: play_file returns True exactly when the entry was opened, decoded  *)
(* and played to its end without a cancel: also when the track had ended   *)
(* at the first poll, and not when it was cancelled in the polling loop.   *)
C34_TrueIffPlayedThrough ==
    PlayFileLeft => (ret = "True" <=> PlayedThrough)

====
